---- MODULE Spec2Model ----
(***************************************************************************)
(* Model of create-supertokens-app's option resolution:                    *)
(*   - mapOptionsToChoices  (Option Mapper)                                *)
(*   - STRATEGIES and filterChoices (Choice Filter Engine,                 *)
(*     lib/ts/filterChoicesUtils.ts)                                       *)
(* One behaviour is one call of one of the two entry points.  The inputs   *)
(* of the call are chosen in Init; the actions are the steps of the call,  *)
(* one per suspension point (await) or branch of the code.                 *)
(*                                                                         *)
(* A JavaScript array is modelled as a record [ref, items]: ref is the     *)
(* identity of the array object, items its contents.  `return choices`     *)
(* keeps the ref, Array.prototype.filter allocates a new one.              *)
(***************************************************************************)
EXTENDS Integers, Sequences, FiniteSets, TLC

\* ---------------------------------------------------------------- bounds
\* longest choice list handed to filterChoices
MaxChoices == 3
\* longest strategy array handed to filterChoices
MaxChain == 2
\* longest option list handed to mapOptionsToChoices
MaxOptions == 3

\* ------------------------------------------------------------- data model
\* UIBuildType.PRE_BUILT; the enum lives in types.js, the literal is the one
\* the specification gives.
PRE_BUILT == "pre-built"

\* a flag the user has not answered yet (the property is undefined)
Undefined == "undefined"

UiBuildValues == {PRE_BUILT, "custom", Undefined}
FrontendValues == {"react", "vue", Undefined}
UserFlags == [uibuild : UiBuildValues, frontend : FrontendValues]

\* const SUPPORTED_FRONTENDS_CUSTOM_UI = ["react"];
SUPPORTED_FRONTENDS_CUSTOM_UI == {"react"}
\* mutation: the recipe allow-list also lists a recipe without custom UI
RecipesWithPasswordless == {"emailpassword", "thirdpartyemailpassword", "passwordless"}

\* const SUPPORTED_RECIPES_CUSTOM_UI = ["emailpassword", "thirdpartyemailpassword"];
SUPPORTED_RECIPES_CUSTOM_UI == {"emailpassword", "thirdpartyemailpassword"}

\* the message of the Error thrown by the recipe strategy
NO_RECIPES_ERROR == "No Recipes Available for the selected UI Build Type and Frontend"

\* PromptListChoice values the calls are exercised with
Choices ==
    { [name |-> "React", value |-> "react"],
      [name |-> "Vue", value |-> "vue"],
      [name |-> "Email Password", value |-> "emailpassword"],
      [name |-> "Social + Email Password", value |-> "thirdpartyemailpassword"],
      [name |-> "Passwordless", value |-> "passwordless"] }

\* all sequences over S of length at most n
SeqsUpTo(S, n) == UNION { [1..k -> S] : k \in 0..n }

\* the keys of the STRATEGIES object
RegisteredStrategies == {"UI_BUILD_FRONTEND", "UI_BUILD_RECIPE"}
\* identifiers a caller may pass: the registered ones and one that is not
StrategyIds == RegisteredStrategies \cup {"UNREGISTERED"}

\* the four shapes of the `strategy` argument
StrategyArgs ==
    { [kind |-> "absent", id |-> "", ids |-> <<>>, fn |-> ""] }
    \cup { [kind |-> "id", id |-> s, ids |-> <<>>, fn |-> ""] : s \in StrategyIds }
    \cup { [kind |-> "ids", id |-> "", ids |-> c, fn |-> ""] :
               c \in SeqsUpTo(StrategyIds, MaxChain) }
    \cup { [kind |-> "fn", id |-> "", ids |-> <<>>, fn |-> f] :
               f \in {"keep", "tail", "reject"} }

\* array identities: 0 stands for "no array", 1 is the caller's array, the
\* arrays allocated during the call get 2, 3, ...
NoList == [ref |-> 0, items |-> <<>>]

\* QuestionOption values; shouldDisplay is optional
ShouldDisplayValues == {"true", "false", Undefined}
QuestionOptions ==
    { [displayName |-> n[1], value |-> n[2], shouldDisplay |-> s] :
        n \in { <<"React", "react">>, <<"Vue", "vue">> },
        s \in ShouldDisplayValues }

VARIABLES
    pc,        \* position of the call
    flags,     \* the UserFlags given to filterChoices(flags)
    input,     \* the caller's choice array (the value a pending input resolves to)
    pending,   \* TRUE when the caller passed a Promise of the array
    strategy,  \* the `strategy` argument
    choices,   \* the local variable `choices`
    chain,     \* the array the for-loop iterates (strategy after line 91)
    i,         \* index of the loop's current element, 1-based
    inflight,  \* the promise returned by the strategy being awaited
    calls,     \* the strategy invocations made so far: what each received and returned
    nextRef,   \* the next unused array identity
    result,    \* what the call settled with
    options,   \* the argument of mapOptionsToChoices
    mapped     \* the array mapOptionsToChoices returned

vars == <<pc, flags, input, pending, strategy, choices, chain, i, inflight,
          calls, nextRef, result, options, mapped>>

\* a settled promise: fulfilled with a list, or rejected with an error
Fulfilled(list) == [ok |-> TRUE, list |-> list, error |-> ""]
Rejected(msg) == [ok |-> FALSE, list |-> NoList, error |-> msg]
NoOutcome == [ok |-> FALSE, list |-> NoList, error |-> "none"]

\* ------------------------------------------------------------ strategies
\* mutation: the kept choices are rebuilt from their value, the label is lost
FilterRenaming(list, allowed) ==
    LET kept == SelectSeq(list.items, LAMBDA c : c.value \in allowed)
    IN  [ref |-> nextRef,
         items |-> [k \in 1..Len(kept) |-> [name |-> kept[k].value,
                                            value |-> kept[k].value]]]

\* mutation: the array is narrowed in place instead of copied
FilterInPlace(list, allowed) ==
    [ref |-> list.ref,
     items |-> SelectSeq(list.items, LAMBDA c : c.value \in allowed)]

\* choices.filter((choice) => ALLOWED.includes(choice.value)): a new array
\* holding, in order, the elements whose value is allowed
FilterByValue(list, allowed) ==
    [ref |-> nextRef,
     items |-> SelectSeq(list.items, LAMBDA c : c.value \in allowed)]

\* mutation: the pre-built early return is missing
FrontendAlwaysFilters(chs, flg) ==
    [ok |-> TRUE,
     list |-> [ref |-> nextRef,
               items |-> SelectSeq(chs.items, LAMBDA c : c.value \in {"react"})],
     error |-> ""]

\* STRATEGIES[FILTER_CHOICES_STRATEGY.UI_BUILD_FRONTEND]
UI_BUILD_FRONTEND(chs, flg) ==
    IF flg.uibuild = PRE_BUILT
    THEN Fulfilled(chs)
    ELSE Fulfilled(FilterByValue(chs, SUPPORTED_FRONTENDS_CUSTOM_UI))

\* mutation: an unsupported frontend yields an empty list instead of an error
RecipeReturnsEmpty(chs, flg) ==
    IF flg.uibuild = "pre-built"
    THEN [ok |-> TRUE, list |-> chs, error |-> ""]
    ELSE IF flg.frontend # "react"
         THEN [ok |-> TRUE, list |-> [ref |-> nextRef, items |-> <<>>], error |-> ""]
         ELSE [ok |-> TRUE,
               list |-> [ref |-> nextRef,
                         items |-> SelectSeq(chs.items, LAMBDA c :
                             c.value \in {"emailpassword", "thirdpartyemailpassword"})],
               error |-> ""]

\* mutation: the frontend is checked before the pre-built early return
RecipeChecksFrontendFirst(chs, flg) ==
    IF flg.frontend # "react"
    THEN [ok |-> FALSE, list |-> [ref |-> 0, items |-> <<>>],
          error |-> "No Recipes Available for the selected UI Build Type and Frontend"]
    ELSE IF flg.uibuild = "pre-built"
         THEN [ok |-> TRUE, list |-> chs, error |-> ""]
         ELSE [ok |-> TRUE,
               list |-> [ref |-> nextRef,
                         items |-> SelectSeq(chs.items, LAMBDA c :
                             c.value \in {"emailpassword", "thirdpartyemailpassword"})],
               error |-> ""]

\* STRATEGIES[FILTER_CHOICES_STRATEGY.UI_BUILD_RECIPE]
UI_BUILD_RECIPE(chs, flg) ==
    IF flg.uibuild = PRE_BUILT
    THEN Fulfilled(chs)
    ELSE IF flg.frontend # "react"
         THEN Rejected(NO_RECIPES_ERROR)
         ELSE Fulfilled(FilterByValue(chs, SUPPORTED_RECIPES_CUSTOM_UI))

\* STRATEGIES[filter](choices, flags) for a registered filter
ApplyStrategy(filter, chs, flg) ==
    IF filter = "UI_BUILD_FRONTEND"
    THEN UI_BUILD_FRONTEND(chs, flg)
    ELSE UI_BUILD_RECIPE(chs, flg)

\* !STRATEGIES[filter]
IsUnregistered(filter) == filter \notin RegisteredStrategies

\* the caller's own filter functions the escape hatch is exercised with:
\* one returning its argument, one returning choices.slice(1), one throwing
CustomFunction(f, chs) ==
    CASE f = "keep" -> Fulfilled(chs)
      [] f = "tail" -> Fulfilled([ref |-> nextRef,
                                  items |-> SubSeq(chs.items, 2, Len(chs.items))])
      [] OTHER -> Rejected("custom failure")

\* mutation: a truthiness test, which also drops the options without the field
IsDisplayedTruthy(option) == option.shouldDisplay = "true"

\* ---------------------------------------------------------- option mapper
\* options.filter((i) => i.shouldDisplay !== false)
\*        .map((option) => ({ name: option.displayName, value: option.value }))
IsDisplayed(option) == option.shouldDisplay # "false"

ToChoice(option) == [name |-> option.displayName, value |-> option.value]

mapOptionsToChoices(opts) ==
    LET kept == SelectSeq(opts, IsDisplayed)
    IN  [k \in 1..Len(kept) |-> ToChoice(kept[k])]

\* ------------------------------------------------------------------- Init
\* a call filterChoices(flags)(choices, strategy)
InitFilter ==
    /\ pc = "entry"
    /\ flags \in UserFlags
    /\ input \in { [ref |-> 1, items |-> it] : it \in SeqsUpTo(Choices, MaxChoices) }
    /\ pending \in BOOLEAN
    /\ strategy \in StrategyArgs
    /\ choices = IF pending THEN NoList ELSE input
    /\ chain = <<>>
    /\ i = 1
    /\ inflight = NoOutcome
    /\ calls = <<>>
    /\ nextRef = 2
    /\ result = NoOutcome
    /\ options = <<>>
    /\ mapped = <<>>

\* a call mapOptionsToChoices(options)
InitMap ==
    /\ pc = "map"
    /\ flags = [uibuild |-> Undefined, frontend |-> Undefined]
    /\ input = NoList
    /\ pending = FALSE
    /\ strategy = [kind |-> "absent", id |-> "", ids |-> <<>>, fn |-> ""]
    /\ choices = NoList
    /\ chain = <<>>
    /\ i = 1
    /\ inflight = NoOutcome
    /\ calls = <<>>
    /\ nextRef = 2
    /\ result = NoOutcome
    /\ options \in SeqsUpTo(QuestionOptions, MaxOptions)
    /\ mapped = <<>>

Init == InitFilter \/ InitMap

\* ---------------------------------------------------------------- actions
\* mutation: the pending input is not awaited
AwaitChoicesDropped ==
    /\ pc = "entry"
    /\ pending
    /\ pc' = "dispatch"
    /\ UNCHANGED <<flags, input, pending, strategy, choices, chain, i, inflight,
                   calls, nextRef, result, options, mapped>>

\* lines 81-83, choices is a Promise: choices = await choices
AwaitChoices ==
    /\ pc = "entry"
    /\ pending
    /\ choices' = input
    /\ pc' = "dispatch"
    /\ UNCHANGED <<flags, input, pending, strategy, chain, i, inflight, calls,
                   nextRef, result, options, mapped>>

\* line 81, choices is already an array
ChoicesReady ==
    /\ pc = "entry"
    /\ ~pending
    /\ pc' = "dispatch"
    /\ UNCHANGED <<flags, input, pending, strategy, choices, chain, i, inflight,
                   calls, nextRef, result, options, mapped>>

\* !strategy || (Array.isArray(strategy) && strategy.length === 0)
NoStrategy ==
    \/ strategy.kind = "absent"
    \/ strategy.kind = "ids" /\ Len(strategy.ids) = 0

\* lines 84-86: return choices
ReturnUnfiltered ==
    /\ pc = "dispatch"
    /\ NoStrategy
    /\ result' = Fulfilled(choices)
    /\ pc' = "returned"
    /\ UNCHANGED <<flags, input, pending, strategy, choices, chain, i, inflight,
                   calls, nextRef, options, mapped>>

\* lines 87-89: return strategy(choices)
CallCustom ==
    /\ pc = "dispatch"
    /\ ~NoStrategy
    /\ strategy.kind = "fn"
    /\ LET out == CustomFunction(strategy.fn, choices)
       IN  /\ result' = out
           /\ pc' = IF out.ok THEN "returned" ELSE "thrown"
           /\ nextRef' = IF out.ok /\ out.list.ref = nextRef
                         THEN nextRef + 1 ELSE nextRef
    /\ UNCHANGED <<flags, input, pending, strategy, choices, chain, i, inflight,
                   calls, options, mapped>>

\* lines 90-93: a single identifier is wrapped into an array; the loop starts
EnterLoop ==
    /\ pc = "dispatch"
    /\ ~NoStrategy
    /\ strategy.kind \in {"id", "ids"}
    /\ chain' = IF strategy.kind = "id" THEN <<strategy.id>> ELSE strategy.ids
    /\ i' = 1
    /\ pc' = "loop"
    /\ UNCHANGED <<flags, input, pending, strategy, choices, inflight, calls,
                   nextRef, result, options, mapped>>

\* mutation: break instead of continue
BreakOnUnregistered ==
    /\ pc = "loop"
    /\ i <= Len(chain)
    /\ chain[i] \notin RegisteredStrategies
    /\ i' = Len(chain) + 1
    /\ UNCHANGED <<pc, flags, input, pending, strategy, choices, chain, inflight,
                   calls, nextRef, result, options, mapped>>

\* lines 94-96: if (!STRATEGIES[filter]) continue
SkipUnregistered ==
    /\ pc = "loop"
    /\ i <= Len(chain)
    /\ IsUnregistered(chain[i])
    /\ i' = i + 1
    /\ UNCHANGED <<pc, flags, input, pending, strategy, choices, chain, inflight,
                   calls, nextRef, result, options, mapped>>

\* mutation: every strategy is handed the array the call started with
StrategyArgumentOriginal == input

\* the array handed to the strategy at line 97
StrategyArgument == choices

\* line 97, the call STRATEGIES[filter](choices, flags): the strategy runs to
\* its end and hands back a settled promise
InvokeStrategy ==
    /\ pc = "loop"
    /\ i <= Len(chain)
    /\ ~IsUnregistered(chain[i])
    /\ LET out == ApplyStrategy(chain[i], StrategyArgument, flags)
       IN  /\ inflight' = out
           /\ calls' = Append(calls, [filter |-> chain[i], at |-> i,
                                      seen |-> StrategyArgument, out |-> NoOutcome])
           /\ nextRef' = IF out.ok /\ out.list.ref = nextRef
                         THEN nextRef + 1 ELSE nextRef
    /\ pc' = "await"
    /\ UNCHANGED <<flags, input, pending, strategy, choices, chain, i, result,
                   options, mapped>>

\* line 97, the await resumes with a value: choices = <that value>
StrategyFulfilled ==
    /\ pc = "await"
    /\ inflight.ok
    /\ choices' = inflight.list
    /\ calls' = [calls EXCEPT ![Len(calls)].out = inflight]
    /\ inflight' = NoOutcome
    /\ i' = i + 1
    /\ pc' = "loop"
    /\ UNCHANGED <<flags, input, pending, strategy, chain, nextRef, result,
                   options, mapped>>

\* line 97, the await throws: the error leaves filterChoices
StrategyRejected ==
    /\ pc = "await"
    /\ ~inflight.ok
    /\ result' = inflight
    /\ calls' = [calls EXCEPT ![Len(calls)].out = inflight]
    /\ inflight' = NoOutcome
    /\ pc' = "thrown"
    /\ UNCHANGED <<flags, input, pending, strategy, choices, chain, i, nextRef,
                   options, mapped>>

\* line 99: return choices
ReturnFiltered ==
    /\ pc = "loop"
    /\ i > Len(chain)
    /\ result' = Fulfilled(choices)
    /\ pc' = "returned"
    /\ UNCHANGED <<flags, input, pending, strategy, choices, chain, i, inflight,
                   calls, nextRef, options, mapped>>

\* mapOptionsToChoices(options)
MapOptions ==
    /\ pc = "map"
    /\ mapped' = mapOptionsToChoices(options)
    /\ pc' = "mapped"
    /\ UNCHANGED <<flags, input, pending, strategy, choices, chain, i, inflight,
                   calls, nextRef, result, options>>

Next ==
    \/ AwaitChoices
    \/ ChoicesReady
    \/ ReturnUnfiltered
    \/ CallCustom
    \/ EnterLoop
    \/ SkipUnregistered
    \/ InvokeStrategy
    \/ StrategyFulfilled
    \/ StrategyRejected
    \/ ReturnFiltered
    \/ MapOptions

Spec == Init /\ [][Next]_vars

\* lines 93-99 on an array of registered identifiers only: every element goes
\* through line 97, the first rejection leaves the loop
RECURSIVE ApplyRegistered(_, _, _)
ApplyRegistered(ids, chs, flg) ==
    IF ids = <<>>
    THEN Fulfilled(chs)
    ELSE LET out == ApplyStrategy(Head(ids), chs, flg)
         IN  IF out.ok THEN ApplyRegistered(Tail(ids), out.list, flg) ELSE out

\* ------------------------------------------------ vocabulary of the claims
\* the call is filterChoices with a registry identifier or an array of them
IsChainCall == pc # "map" /\ pc # "mapped" /\ strategy.kind \in {"id", "ids"}

\* the call is filterChoices with the strategy omitted or an empty array
IsPlainCall ==
    /\ pc # "map" /\ pc # "mapped"
    /\ strategy.kind = "absent" \/ (strategy.kind = "ids" /\ strategy.ids = <<>>)

\* the identifiers of the call, as the caller gave them
GivenChain ==
    IF strategy.kind = "id" THEN <<strategy.id>>
    ELSE IF strategy.kind = "ids" THEN strategy.ids
    ELSE <<>>

\* the given identifiers without the unregistered ones, order kept
RegisteredOnly(ids) == SelectSeq(ids, LAMBDA f : f \in {"UI_BUILD_FRONTEND", "UI_BUILD_RECIPE"})

Contains(ids, f) == \E k \in 1..Len(ids) : ids[k] = f

Settled == pc \in {"returned", "thrown"}

\* a is b with some elements left out (same relative order)
RECURSIVE IsSubSeq(_, _)
IsSubSeq(a, b) ==
    IF a = <<>> THEN TRUE
    ELSE IF b = <<>> THEN FALSE
    ELSE IF Head(a) = Head(b) THEN IsSubSeq(Tail(a), Tail(b))
    ELSE IsSubSeq(a, Tail(b))

\* number of positions of s whose element has its value in allowed
CountAllowed(s, allowed) == Cardinality({k \in 1..Len(s) : s[k].value \in allowed})

\* out is exactly the elements of seen whose value is in allowed, in order
ExactlyAllowed(out, seen, allowed) ==
    /\ IsSubSeq(out, seen)
    /\ \A k \in 1..Len(out) : out[k].value \in allowed
    /\ Len(out) = CountAllowed(seen, allowed)

\* the invocations that have returned
Completed == {k \in 1..Len(calls) : calls[k].out # NoOutcome}

\* ----------------------------------------------------------------- claims

\* C1: the strategies of a chain are applied one after another, left to right:
\* the k-th invocation is of the k-th registered identifier of the chain, the
\* first receives the resolved input and every later one receives exactly the
\* array the previous one returned; an invocation starts only after all the
\* earlier ones have returned, and the call returns what the last one returned.
SequentialChain ==
    IsChainCall =>
        LET reg == RegisteredOnly(GivenChain)
        IN  /\ Len(calls) <= Len(reg)
            /\ \A k \in 1..Len(calls) :
                 /\ calls[k].filter = reg[k]
                 /\ calls[k].seen = IF k = 1 THEN input ELSE calls[k - 1].out.list
                 /\ k < Len(calls) => calls[k].out.ok
                 /\ (calls[k].out = NoOutcome) <=> (k = Len(calls) /\ pc = "await")
            /\ pc = "returned" =>
                 /\ Len(calls) = Len(reg)
                 /\ result = IF calls = <<>> THEN Fulfilled(input)
                             ELSE calls[Len(calls)].out

\* C1 witness: a two-element chain has returned, and its second strategy was
\* handed the narrowed array of the first, which differs from the input
SequentialChainWitness ==
    /\ IsChainCall
    /\ pc = "returned"
    /\ Len(calls) = 2
    /\ calls[1].out.list.items # input.items
    /\ calls[2].seen = calls[1].out.list

\* C2: under a UI build that is not pre-built and a frontend other than
\* "react", the recipe strategy rejects whatever array it is given, and a call
\* whose chain holds the recipe identifier never returns a list: it keeps
\* stepping until it throws the no-recipes error, the recipe invocation being
\* the last one made.
RecipeUnsatisfiable ==
    (pc # "map" /\ pc # "mapped" /\ flags.uibuild # PRE_BUILT /\ flags.frontend # "react") =>
        /\ UI_BUILD_RECIPE(input, flags) = Rejected(NO_RECIPES_ERROR)
        /\ \A k \in Completed :
             calls[k].filter = "UI_BUILD_RECIPE" =>
                 calls[k].out = Rejected(NO_RECIPES_ERROR) /\ k = Len(calls)
        /\ (IsChainCall /\ Contains(GivenChain, "UI_BUILD_RECIPE")) =>
             /\ pc # "returned"
             /\ pc = "thrown" =>
                  /\ result = Rejected(NO_RECIPES_ERROR)
                  /\ calls[Len(calls)].filter = "UI_BUILD_RECIPE"
             /\ pc # "thrown" => ENABLED Next

\* C2 witness: custom UI, frontend vue, the recipe strategy ran on an array an
\* earlier strategy had narrowed to nothing, and the call threw
RecipeUnsatisfiableWitness ==
    /\ pc = "thrown"
    /\ flags = [uibuild |-> "custom", frontend |-> "vue"]
    /\ GivenChain = <<"UI_BUILD_FRONTEND", "UI_BUILD_RECIPE">>
    /\ Len(calls) = 2
    /\ calls[2].seen.items = <<>>
    /\ input.items # <<>>

OnlyNarrows ==
    (pc # "map" /\ pc # "mapped") =>
        /\ \A f \in RegisteredStrategies :
             LET out == ApplyStrategy(f, input, flags)
             IN  out.ok => IsSubSeq(out.list.items, input.items)
        /\ \A k \in Completed :
             calls[k].out.ok => IsSubSeq(calls[k].out.list.items, calls[k].seen.items)
        /\ (IsChainCall /\ pc = "returned") =>
             /\ IsSubSeq(result.list.items, input.items)
             /\ Len(result.list.items) <= Len(input.items)

\* C4 witness: a chain call returned some but not all of its input
OnlyNarrowsWitness ==
    /\ IsChainCall
    /\ pc = "returned"
    /\ result.list.items # <<>>
    /\ Len(result.list.items) < Len(input.items)
    /\ Len(calls) = 2

\* C5: an unregistered identifier in a chain is a silent no-op: the call
\* settles as the chain without the unregistered identifiers does (the same
\* choices, or the same error; the caller's own array exactly when that chain
\* hands it back), and a chain of unregistered identifiers only returns the
\* input unchanged.
UnregisteredIsNoOp ==
    (IsChainCall /\ Settled) =>
        LET reg == RegisteredOnly(GivenChain)
            ref == ApplyRegistered(reg, input, flags)
        IN  /\ result.ok = ref.ok
            /\ result.error = ref.error
            /\ result.list.items = ref.list.items
            /\ (result.list = input) <=> (ref.list = input)
            /\ reg = <<>> => result = Fulfilled(input)

\* C5 witness: a chain with an unregistered identifier ahead of a registered
\* one settled, and the registered one narrowed the input
UnregisteredIsNoOpWitness ==
    /\ IsChainCall
    /\ pc = "returned"
    /\ GivenChain = <<"UNREGISTERED", "UI_BUILD_FRONTEND">>
    /\ Len(result.list.items) < Len(input.items)
    /\ result.list.items # <<>>

\* C6: with the strategy omitted, or an empty array, the call never throws,
\* keeps stepping until it returns, and returns the resolved input itself.
IdentityPassThrough ==
    IsPlainCall =>
        /\ pc # "thrown"
        /\ calls = <<>>
        /\ pc = "returned" => result = Fulfilled(input)
        /\ pc # "returned" => ENABLED Next

\* C6 witness: a pending input resolved and came back through an empty array
IdentityPassThroughWitness ==
    /\ IsPlainCall
    /\ pc = "returned"
    /\ pending
    /\ strategy.kind = "ids"
    /\ Len(input.items) >= 2
    /\ result.list.items = input.items

\* C7: with uibuild = "pre-built" both strategies return the array they are
\* given, whatever the frontend flag, and a chain call returns its input.
PreBuiltUnchanged ==
    (pc # "map" /\ pc # "mapped" /\ flags.uibuild = PRE_BUILT) =>
        /\ \A f \in RegisteredStrategies :
             ApplyStrategy(f, input, flags) = Fulfilled(input)
        /\ \A k \in Completed : calls[k].out = Fulfilled(calls[k].seen)
        /\ IsChainCall =>
             /\ pc # "thrown"
             /\ pc = "returned" => result = Fulfilled(input)

\* C7 witness: pre-built, a frontend without custom UI, both strategies ran
\* on an array neither allow-list would keep whole
PreBuiltUnchangedWitness ==
    /\ IsChainCall
    /\ pc = "returned"
    /\ flags = [uibuild |-> PRE_BUILT, frontend |-> "vue"]
    /\ Len(calls) = 2
    /\ calls[1].filter # calls[2].filter
    /\ \E k \in 1..Len(input.items) : input.items[k].value = "passwordless"

\* C8: with uibuild = "custom" and frontend = "react" the UI-build/frontend
\* strategy returns exactly the choices whose value is "react" and the recipe
\* strategy exactly those whose value is "emailpassword" or
\* "thirdpartyemailpassword", in input order.
CustomReactAllowLists ==
    (pc # "map" /\ pc # "mapped" /\ flags = [uibuild |-> "custom", frontend |-> "react"]) =>
        LET allow(f) == IF f = "UI_BUILD_FRONTEND"
                        THEN {"react"}
                        ELSE {"emailpassword", "thirdpartyemailpassword"}
        IN  /\ \A f \in RegisteredStrategies :
                 LET out == ApplyStrategy(f, input, flags)
                 IN  out.ok /\ ExactlyAllowed(out.list.items, input.items, allow(f))
            /\ \A k \in Completed :
                 /\ calls[k].out.ok
                 /\ ExactlyAllowed(calls[k].out.list.items, calls[k].seen.items,
                                   allow(calls[k].filter))

\* C8 witness: the recipe strategy dropped "passwordless" and kept the two
\* custom-UI recipes
CustomReactAllowListsWitness ==
    /\ flags = [uibuild |-> "custom", frontend |-> "react"]
    /\ pc = "returned"
    /\ strategy.kind = "id"
    /\ strategy.id = "UI_BUILD_RECIPE"
    /\ Len(input.items) = 3
    /\ input.items[1].value = "emailpassword"
    /\ input.items[2].value = "passwordless"
    /\ input.items[3].value = "thirdpartyemailpassword"
    /\ Len(result.list.items) = 2

\* the position in opts of its n-th displayed option
NthDisplayed(opts, n) ==
    CHOOSE j \in 1..Len(opts) :
        /\ opts[j].shouldDisplay # "false"
        /\ Cardinality({k \in 1..j : opts[k].shouldDisplay # "false"}) = n

\* C9: mapOptionsToChoices returns one {name = displayName, value = value} per
\* option whose shouldDisplay is not false, in the input's order, and nothing
\* else.
MapperKeepsDisplayed ==
    pc = "mapped" =>
        LET shown == {k \in 1..Len(options) : options[k].shouldDisplay # "false"}
        IN  /\ Len(mapped) = Cardinality(shown)
            /\ \A n \in 1..Len(mapped) :
                 LET o == options[NthDisplayed(options, n)]
                 IN  mapped[n] = [name |-> o.displayName, value |-> o.value]
            /\ options = <<>> => mapped = <<>>

\* C9 witness: an option with shouldDisplay false was dropped between one
\* without the field and one with it true
MapperKeepsDisplayedWitness ==
    /\ pc = "mapped"
    /\ Len(options) = 3
    /\ options[1].shouldDisplay = Undefined
    /\ options[2].shouldDisplay = "false"
    /\ options[3].shouldDisplay = "true"
    /\ options[1].value # options[3].value
    /\ Len(mapped) = 2

\* C10 as stated: the array a call or a strategy hands back is never the array
\* it was given.
NeverAliased ==
    (pc # "map" /\ pc # "mapped" /\ strategy.kind # "fn") =>
        /\ \A k \in Completed :
             calls[k].out.ok => calls[k].out.list.ref # calls[k].seen.ref
        /\ pc = "returned" => result.list.ref # input.ref

\* C10 amended: a strategy hands back a new array exactly when the uibuild
\* flag is not "pre-built" (it filters), and the very array it was given
\* otherwise; filterChoices with an omitted strategy, an empty array or
\* identifiers hands back the caller's array unless a registered strategy
\* filtered, and then an array no earlier step of the call held.
FreshOnlyWhenFiltered ==
    (pc # "map" /\ pc # "mapped" /\ strategy.kind # "fn") =>
        /\ \A k \in Completed :
             calls[k].out.ok =>
                 /\ (calls[k].out.list.ref = calls[k].seen.ref)
                        <=> (flags.uibuild = PRE_BUILT)
                 /\ flags.uibuild # PRE_BUILT =>
                        /\ calls[k].out.list.ref # input.ref
                        /\ \A j \in 1..(k - 1) :
                               calls[k].out.list.ref # calls[j].out.list.ref
        /\ pc = "returned" =>
             ((result.list.ref = input.ref)
                  <=> (flags.uibuild = PRE_BUILT \/ RegisteredOnly(GivenChain) = <<>>))

\* C10 witness: a custom-UI chain of two strategies returned the second of two
\* new arrays
FreshOnlyWhenFilteredWitness ==
    /\ IsChainCall
    /\ pc = "returned"
    /\ flags.uibuild = "custom"
    /\ Len(calls) = 2
    /\ result.list.ref # input.ref
    /\ result.list.ref # calls[1].out.list.ref

====
